---- MODULE Spec2Model ----
(***************************************************************************)
(* A model of the M/M/c queueing simulation of src/main.py: the Player,    *)
(* the Queue (server pool), the SimulationModel's main_simulation_loop and *)
(* the Snapshot.  Simulated time is counted in whole ticks; a variate      *)
(* sample is any number of ticks the sign of its rate allows.              *)
(***************************************************************************)
EXTENDS Integers, Sequences, FiniteSets, TLC

VARIABLES
    arrival_rate,          \* SimulationModel.arrival_rate
    service_rate,          \* Queue.service_rate
    no_of_servers,         \* the no_of_servers argument of Queue.__init__
    next_available_times,  \* Queue.next_available_times
    queue,                 \* Queue.queue: references (heap indices) of Players
    heap,                  \* every Player object created so far
    simulation_time,       \* main_simulation_loop's argument
    snap_shot,             \* main_simulation_loop's argument
    time,                  \* main_simulation_loop's local
    players,               \* main_simulation_loop's local: ID -> Player reference
    snapshots,             \* main_simulation_loop's local: time -> Snapshot
    no_of_players,         \* main_simulation_loop's local
    new_player,            \* main_simulation_loop's local (0: not bound yet)
    pc,                    \* the position of the caller / of the loop
    raised,                \* the exception that left the call, "" when none
    result,                \* <<>>, or <<the pair main_simulation_loop returned>>
    op,                    \* the last call or statement executed, with its argument
    tape,                  \* the variate samples drawn since the generator was seeded
    first                  \* <<>>, or <<what the first of two runs left behind>>

vars == <<arrival_rate, service_rate, no_of_servers, next_available_times, queue,
          heap, simulation_time, snap_shot, time, players, snapshots,
          no_of_players, new_player, pc, raised, result, op, tape, first>>

model_vars == <<arrival_rate, service_rate, no_of_servers>>
pool_vars  == <<next_available_times, queue, heap>>
loop_vars  == <<simulation_time, snap_shot, time, players, snapshots,
                no_of_players, new_player>>
seed_vars  == <<tape, first>>

(***************************************************************************)
(* Bounds of the model.                                                    *)
(***************************************************************************)
MaxPlayers == 3   \* Players created in one behaviour
MaxSample  == 2   \* largest magnitude of one variate sample, in ticks
MaxServers == 3   \* largest no_of_servers
MaxTime    == 3   \* largest simulation_time
MaxArrival == 1   \* largest arrival or clean-up time of a direct call on the pool

Rates        == {-1, 0, 1}
ServerCounts == (-1) .. MaxServers
Horizons     == {-MaxTime, 0, MaxTime}
Times        == 0 .. MaxArrival

(***************************************************************************)
(* random.expovariate(lambd) = -log(1 - random()) / lambd, random() in     *)
(* [0, 1): a sample >= 0 for lambd > 0, a sample <= 0 for lambd < 0, and a *)
(* ZeroDivisionError for lambd = 0 (no sample).                            *)
(***************************************************************************)
expovariate(lambd) ==
    IF lambd > 0 THEN 0 .. MaxSample
    ELSE IF lambd < 0 THEN (-MaxSample) .. 0
    ELSE {}

(***************************************************************************)
(* The samples the generator can give next.  A generator seeded as it was  *)
(* for the first run (random.seed of the doctests) repeats the variates of *)
(* that run in their order; otherwise any sample of the rate can come.     *)
(***************************************************************************)
Replaying == first # << >> /\ first[1].mode = "replay"

Draw(lambd) ==
    IF Replaying
    THEN IF Len(tape) < Len(first[1].tape)
         THEN {first[1].tape[Len(tape) + 1]} \cap expovariate(lambd)
         ELSE {}
    ELSE expovariate(lambd)

(***************************************************************************)
(* Python's min(list), max(a, b) and list.index(value).                    *)
(***************************************************************************)
min(list) == CHOOSE x \in {list[i] : i \in DOMAIN list} :
                 \A j \in DOMAIN list : x <= list[j]

max(a, b) == IF b > a THEN b ELSE a

\* the last position of value instead of the first
LastIndex(list, value) == CHOOSE i \in DOMAIN list :
                              /\ list[i] = value
                              /\ \A j \in DOMAIN list : j > i => list[j] # value

index(list, value) == CHOOSE i \in DOMAIN list :
                          /\ list[i] = value
                          /\ \A j \in DOMAIN list : j < i => list[j] # value

(***************************************************************************)
(* Player.__init__ and the assignments of Player.enter_queue.              *)
(***************************************************************************)
Player(arrival) == [arrival_time |-> arrival]

\* the Player always takes the first server's slot
FirstServer(times) == 1

next_available_server(times) == index(times, min(times))

\* the service starts when the server is free, even before the arrival
ServedWithoutMax(player, times, sample) ==
    LET start == min(times)
        end   == start + sample
    IN  [arrival_time       |-> player.arrival_time,
         service_time       |-> sample,
         service_start_time |-> start,
         service_end_time   |-> end,
         cost               |-> end - player.arrival_time]

\* the service starts on arrival, whether or not a server is free
ServedOnArrival(player, times, sample) ==
    LET start == player.arrival_time
        end   == start + sample
    IN  [arrival_time       |-> player.arrival_time,
         service_time       |-> sample,
         service_start_time |-> start,
         service_end_time   |-> end,
         cost               |-> end - player.arrival_time]

Served(player, times, sample) ==
    LET next_available_time == min(times)
        start               == max(player.arrival_time, next_available_time)
        end                 == start + sample
    IN  [arrival_time       |-> player.arrival_time,
         service_time       |-> sample,
         service_start_time |-> start,
         service_end_time   |-> end,
         cost               |-> end - player.arrival_time]

(***************************************************************************)
(* Queue.__init__: one slot per server, none for no_of_servers <= 0.       *)
(***************************************************************************)
\* a pool is never built empty
QueueAtLeastOneServer(n) == [server \in 1 .. (IF n < 1 THEN 1 ELSE n) |-> 0]

Queue(n) == [server \in 1 .. n |-> 0]

(***************************************************************************)
(* Queue.clean_up_queue: the list comprehension keeps, in order, the       *)
(* Players whose service_end_time is greater than the time given.          *)
(***************************************************************************)
RECURSIVE Kept(_, _, _)
Kept(list, objs, t) ==
    IF list = << >> THEN << >>
    ELSE IF objs[Head(list)].service_end_time > t
         THEN <<Head(list)>> \o Kept(Tail(list), objs, t)
         ELSE Kept(Tail(list), objs, t)

\* a Player whose service ends exactly at the time given stays in the queue
RECURSIVE CleanUpKeepingEqual(_, _, _)
CleanUpKeepingEqual(list, objs, t) ==
    IF list = << >> THEN << >>
    ELSE IF objs[Head(list)].service_end_time >= t
         THEN <<Head(list)>> \o CleanUpKeepingEqual(Tail(list), objs, t)
         ELSE CleanUpKeepingEqual(Tail(list), objs, t)

\* "for p in queue: if p.service_end_time <= time: queue.remove(p)": the
\* Player that follows a removed one is skipped by the iteration
RECURSIVE RemoveWhileIterating(_, _, _)
RemoveWhileIterating(list, objs, t) ==
    IF list = << >> THEN << >>
    ELSE IF objs[Head(list)].service_end_time > t
         THEN <<Head(list)>> \o RemoveWhileIterating(Tail(list), objs, t)
         ELSE IF Tail(list) = << >> THEN << >>
              ELSE <<Head(Tail(list))>> \o
                       RemoveWhileIterating(Tail(Tail(list)), objs, t)

\* the comparison is turned round: the finished Players are the ones kept
RECURSIVE CleanUpKeepingFinished(_, _, _)
CleanUpKeepingFinished(list, objs, t) ==
    IF list = << >> THEN << >>
    ELSE IF objs[Head(list)].service_end_time <= t
         THEN <<Head(list)>> \o CleanUpKeepingFinished(Tail(list), objs, t)
         ELSE CleanUpKeepingFinished(Tail(list), objs, t)

clean_up_queue(list, objs, t) == Kept(list, objs, t)

(***************************************************************************)
(* Snapshot.__init__: len(queue.queue) and, under true division, the sum   *)
(* of the costs of all players over len(players).  The quotient is kept as *)
(* the exact fraction <<numerator, denominator>>; dividing by zero raises. *)
(***************************************************************************)
RECURSIVE SumOfCosts(_, _, _)
SumOfCosts(dict, objs, keys) ==
    IF keys = {} THEN 0
    ELSE LET ID == CHOOSE k \in keys : TRUE
         IN  objs[dict[ID]].cost + SumOfCosts(dict, objs, keys \ {ID})

\* the average is taken over the Players still in the queue
SnapshotOfActive(dict, list, objs) ==
    LET active == {ID \in DOMAIN dict : \E i \in DOMAIN list : list[i] = dict[ID]}
    IN  [queue_length |-> Len(list),
         average_cost |-> <<SumOfCosts(dict, objs, active), Cardinality(active)>>]

Snapshot(dict, list, objs) ==
    [queue_length |-> Len(list),
     average_cost |-> <<SumOfCosts(dict, objs, DOMAIN dict), Cardinality(DOMAIN dict)>>]

(***************************************************************************)
(* dict[key] = value on a Python dict: a new key is added, a key already   *)
(* present is rebound.                                                     *)
(***************************************************************************)
SetItem(dict, key, value) ==
    [k \in (DOMAIN dict) \cup {key} |-> IF k = key THEN value ELSE dict[k]]

(***************************************************************************)
(* The record of the last call: its name, its argument and, for a          *)
(* clean_up_queue that directly follows another one, that one's argument.  *)
(***************************************************************************)
Call(name, arg) == [name |-> name, arg |-> arg, prev |-> << >>]

CleanUpCall(t) ==
    [name |-> "clean_up_queue", arg |-> t,
     prev |-> IF op.name = "clean_up_queue" THEN <<op.arg>> ELSE << >>]

(***************************************************************************)
(* SimulationModel.__init__: the rates are stored and the Queue is built;  *)
(* nothing is validated.  No call of main_simulation_loop is in progress.  *)
(***************************************************************************)
NoLoop ==
    /\ simulation_time = 0
    /\ snap_shot = FALSE
    /\ time = 0
    /\ players = << >>
    /\ snapshots = << >>
    /\ no_of_players = 0
    /\ new_player = 0

Init ==
    /\ arrival_rate \in Rates
    /\ service_rate \in Rates
    /\ no_of_servers \in ServerCounts
    /\ next_available_times = Queue(no_of_servers)
    /\ queue = << >>
    /\ heap = << >>
    /\ NoLoop
    /\ pc = "idle"
    /\ raised = ""
    /\ result = << >>
    /\ op = Call("SimulationModel", no_of_servers)
    /\ tape = << >>
    /\ first = << >>

(***************************************************************************)
(* Player.enter_queue(queue) for the Player at reference p of objs.        *)
(* min() of an empty list raises ValueError before anything is assigned;   *)
(* the sampling of the service time raises ZeroDivisionError for rate 0.   *)
(***************************************************************************)
enter_queue(objs, p, after) ==
    \/ /\ next_available_times = << >>
       /\ raised' = "ValueError"
       /\ pc' = "raised"
       /\ heap' = objs
       /\ UNCHANGED <<next_available_times, queue, tape>>
    \/ /\ next_available_times # << >>
       /\ expovariate(service_rate) = {}
       /\ raised' = "ZeroDivisionError"
       /\ pc' = "raised"
       /\ heap' = objs
       /\ UNCHANGED <<next_available_times, queue, tape>>
    \/ /\ next_available_times # << >>
       /\ \E sample \in Draw(service_rate) :
            LET served == Served(objs[p], next_available_times, sample)
            IN  /\ heap' = [objs EXCEPT ![p] = served]
                /\ tape' = Append(tape, sample)
                /\ next_available_times' =
                       [next_available_times EXCEPT
                           ![next_available_server(next_available_times)] =
                               served.service_end_time]
       /\ queue' = Append(queue, p)
       /\ pc' = after
       /\ UNCHANGED raised

(***************************************************************************)
(* main_simulation_loop, statement by statement.                           *)
(***************************************************************************)
\* the queue is cleaned up before the new Player enters it
LoopBodyCleanUpFirst == <<"clean_up_queue", "enter_queue", "advance", "snapshot">>

LoopBody == <<"enter_queue", "clean_up_queue", "advance", "snapshot">>

After(statement) ==
    LET i == index(LoopBody, statement)
    IN  IF i < Len(LoopBody) THEN LoopBody[i + 1] ELSE "while"

\* "time = sample" for "time += sample"
TimeAssigned(t, sample) == sample

\* line 271: time += random.expovariate(self.arrival_rate)
advanced(t, sample) == t + sample

\* the loop also runs when time has reached simulation_time
LoopTestInclusive == time <= simulation_time

\* line 261: the test of the while loop
LoopTest == time < simulation_time

\* lines 256-259: the call binds the arguments and resets the locals
CallLoop ==
    /\ pc = "idle"
    /\ \E horizon \in Horizons, snap \in BOOLEAN :
         /\ simulation_time' = horizon
         /\ snap_shot' = snap
         /\ op' = Call("main_simulation_loop", horizon)
    /\ time' = 0
    /\ players' = << >>
    /\ snapshots' = << >>
    /\ no_of_players' = 0
    /\ new_player' = 0
    /\ pc' = "while"
    /\ UNCHANGED <<model_vars, pool_vars, raised, result, seed_vars>>

\* lines 261, 264-266: the test succeeds, a Player is created and registered
NewPlayer ==
    /\ pc = "while"
    /\ LoopTest
    /\ Len(heap) < MaxPlayers
    /\ heap' = Append(heap, Player(time))
    /\ new_player' = Len(heap) + 1
    /\ no_of_players' = no_of_players + 1
    /\ players' = SetItem(players, no_of_players + 1, Len(heap) + 1)
    /\ pc' = LoopBody[1]
    /\ op' = Call("Player", time)
    /\ UNCHANGED <<model_vars, next_available_times, queue, simulation_time,
                   snap_shot, time, snapshots, raised, result, seed_vars>>

\* lines 261, 276: the test fails, the two dicts are returned
Return ==
    /\ pc = "while"
    /\ ~LoopTest
    /\ result' = <<[players |-> players, snapshots |-> snapshots]>>
    /\ pc' = "returned"
    /\ op' = Call("return", time)
    /\ UNCHANGED <<model_vars, pool_vars, loop_vars, raised, seed_vars>>

\* line 268
EnterQueue ==
    /\ pc = "enter_queue"
    /\ enter_queue(heap, new_player, After("enter_queue"))
    /\ op' = Call("enter_queue", new_player)
    /\ UNCHANGED <<model_vars, loop_vars, result, first>>

\* line 269
CleanUpQueue ==
    /\ pc = "clean_up_queue"
    /\ queue' = clean_up_queue(queue, heap, time)
    /\ pc' = After("clean_up_queue")
    /\ op' = CleanUpCall(time)
    /\ UNCHANGED <<model_vars, next_available_times, heap, loop_vars, raised,
                   result, seed_vars>>

\* line 271
Advance ==
    /\ pc = "advance"
    /\ \/ /\ expovariate(arrival_rate) = {}
          /\ raised' = "ZeroDivisionError"
          /\ pc' = "raised"
          /\ op' = Call("advance", 0)
          /\ UNCHANGED <<time, tape>>
       \/ \E sample \in Draw(arrival_rate) :
            /\ time' = advanced(time, sample)
            /\ tape' = Append(tape, sample)
            /\ pc' = After("advance")
            /\ op' = Call("advance", sample)
            /\ UNCHANGED raised
    /\ UNCHANGED <<model_vars, pool_vars, simulation_time, snap_shot, players,
                   snapshots, no_of_players, new_player, result, first>>

\* lines 272-273
TakeSnapshot ==
    /\ pc = "snapshot"
    /\ snapshots' = IF snap_shot
                    THEN SetItem(snapshots, time, Snapshot(players, queue, heap))
                    ELSE snapshots
    /\ pc' = After("snapshot")
    /\ op' = Call("snapshot", time)
    /\ UNCHANGED <<model_vars, pool_vars, simulation_time, snap_shot, time,
                   players, no_of_players, new_player, raised, result,
                   seed_vars>>

Next ==
    \/ CallLoop
    \/ NewPlayer
    \/ Return
    \/ EnterQueue
    \/ CleanUpQueue
    \/ Advance
    \/ TakeSnapshot

Spec == Init /\ [][Next]_vars

(***************************************************************************)
(* The interpreter keeps executing the call: a statement that can be       *)
(* executed is executed.                                                   *)
(***************************************************************************)
SpecFair == Init /\ [][Next]_vars /\ WF_vars(Next)

(***************************************************************************)
(* The server pool used directly, as the doctests of Player.enter_queue    *)
(* and Queue.clean_up_queue do: a Queue is built, then Players of any      *)
(* arrival time enter it and it is cleaned up at any time, in any order.   *)
(***************************************************************************)
PoolInit ==
    /\ arrival_rate = 1
    /\ service_rate \in Rates
    /\ no_of_servers \in ServerCounts
    /\ next_available_times = Queue(no_of_servers)
    /\ queue = << >>
    /\ heap = << >>
    /\ NoLoop
    /\ pc = "idle"
    /\ raised = ""
    /\ result = << >>
    /\ op = Call("Queue", no_of_servers)
    /\ tape = << >>
    /\ first = << >>

\* a = Player(arrival); a.enter_queue(q)
PlayerEnters ==
    /\ pc = "idle"
    /\ Len(heap) < MaxPlayers
    /\ \E arrival \in Times :
         /\ enter_queue(Append(heap, Player(arrival)), Len(heap) + 1, "idle")
         /\ op' = Call("enter_queue", Len(heap) + 1)
    /\ UNCHANGED <<model_vars, loop_vars, result, first>>

\* q.clean_up_queue(t)
QueueCleanUp ==
    /\ pc = "idle"
    /\ \E t \in Times :
         /\ queue' = clean_up_queue(queue, heap, t)
         /\ op' = CleanUpCall(t)
    /\ UNCHANGED <<model_vars, next_available_times, heap, loop_vars, pc,
                   raised, result, seed_vars>>

PoolNext ==
    \/ PlayerEnters
    \/ QueueCleanUp

SpecPool == PoolInit /\ [][PoolNext]_vars

(***************************************************************************)
(* Two runs with the same parameters and the same seed, as the doctests    *)
(* make them: after the first run has returned, the generator is seeded    *)
(* again, a new SimulationModel is built from the same three arguments and *)
(* its main_simulation_loop is called with the same two arguments.  The    *)
(* first run's results are kept by value.                                  *)
(***************************************************************************)
Resolved(dict, objs) == [ID \in DOMAIN dict |-> objs[dict[ID]]]

Left(mode) ==
    [mode                 |-> mode,
     results              |-> Resolved(players, heap),
     tape                 |-> tape,
     next_available_times |-> next_available_times,
     queue                |-> queue]

\* the second run is made on the SimulationModel of the first
SecondRunOnSameModel ==
    /\ pc = "returned"
    /\ first = << >>
    /\ first' = <<Left("replay")>>
    /\ tape' = << >>
    /\ time' = 0
    /\ players' = << >>
    /\ snapshots' = << >>
    /\ no_of_players' = 0
    /\ new_player' = 0
    /\ result' = << >>
    /\ pc' = "while"
    /\ op' = Call("main_simulation_loop", simulation_time)
    /\ UNCHANGED <<model_vars, pool_vars, simulation_time, snap_shot, raised>>

SecondRunSeeded ==
    /\ pc = "returned"
    /\ first = << >>
    /\ first' = <<Left("replay")>>
    /\ tape' = << >>
    /\ next_available_times' = Queue(no_of_servers)
    /\ queue' = << >>
    /\ heap' = << >>
    /\ time' = 0
    /\ players' = << >>
    /\ snapshots' = << >>
    /\ no_of_players' = 0
    /\ new_player' = 0
    /\ result' = << >>
    /\ pc' = "while"
    /\ op' = Call("main_simulation_loop", simulation_time)
    /\ UNCHANGED <<model_vars, simulation_time, snap_shot, raised>>

ReplayNext ==
    \/ Next
    \/ SecondRunSeeded

SpecReplay == Init /\ [][ReplayNext]_vars

(***************************************************************************)
(* main_simulation_loop called a second time on the same SimulationModel,  *)
(* with arguments of its own and without seeding the generator again: the  *)
(* call resets its locals, lines 256-259, and touches nothing of           *)
(* self.queue, which was built once by SimulationModel.__init__.  The      *)
(* Players of the first run stay alive through the queue's list.           *)
(***************************************************************************)

\* the second call starts from a new Queue
CallAgainWithNewQueue ==
    /\ pc = "returned"
    /\ first = << >>
    /\ first' = <<Left("again")>>
    /\ \E horizon \in Horizons, snap \in BOOLEAN :
         /\ simulation_time' = horizon
         /\ snap_shot' = snap
         /\ op' = Call("main_simulation_loop", horizon)
    /\ next_available_times' = Queue(no_of_servers)
    /\ queue' = << >>
    /\ time' = 0
    /\ players' = << >>
    /\ snapshots' = << >>
    /\ no_of_players' = 0
    /\ new_player' = 0
    /\ result' = << >>
    /\ pc' = "while"
    /\ UNCHANGED <<model_vars, heap, raised, tape>>

CallAgain ==
    /\ pc = "returned"
    /\ first = << >>
    /\ first' = <<Left("again")>>
    /\ \E horizon \in Horizons, snap \in BOOLEAN :
         /\ simulation_time' = horizon
         /\ snap_shot' = snap
         /\ op' = Call("main_simulation_loop", horizon)
    /\ time' = 0
    /\ players' = << >>
    /\ snapshots' = << >>
    /\ no_of_players' = 0
    /\ new_player' = 0
    /\ result' = << >>
    /\ pc' = "while"
    /\ UNCHANGED <<model_vars, pool_vars, raised, tape>>

TwiceNext ==
    \/ Next
    \/ CallAgain

SpecTwice == Init /\ [][TwiceNext]_vars

(***************************************************************************)
(* Vocabulary of the properties.                                           *)
(***************************************************************************)
Assigned(p) == "cost" \in DOMAIN heap[p]

AssignedPlayers == {p \in DOMAIN heap : Assigned(p)}

InService(p, t) ==
    heap[p].service_start_time <= t /\ t < heap[p].service_end_time

\* every instant at which a Player of the direct calls can be in service
Instants == 0 .. (MaxArrival + MaxPlayers * MaxSample)

\* this step is a call of enter_queue that did not raise
EnterStep == op'.name = "enter_queue" /\ heap' # heap /\ pc' # "raised"

\* this step is a call of clean_up_queue
CleanStep == op'.name = "clean_up_queue"

ActiveSet(list) == {list[i] : i \in DOMAIN list}

Position(list, p) == CHOOSE i \in DOMAIN list : list[i] = p

(***************************************************************************)
(* C1: on a pool with at least one server and non-negative service-time    *)
(* samples, every Player that entered the queue has service_start_time >=  *)
(* arrival_time, service_end_time = service_start_time + service_time and  *)
(* cost = service_end_time - arrival_time >= service_time >= 0.            *)
(***************************************************************************)
C1_ServiceWindow ==
    (no_of_servers >= 1 /\ service_rate > 0) =>
        \A p \in AssignedPlayers :
            LET e == heap[p]
            IN  /\ e.service_start_time >= e.arrival_time
                /\ e.service_end_time = e.service_start_time + e.service_time
                /\ e.cost = e.service_end_time - e.arrival_time
                /\ e.cost >= e.service_time
                /\ e.service_time >= 0

\* a Player that had to wait for a server: its cost exceeds its service time
C1_Witness ==
    /\ no_of_servers >= 1
    /\ service_rate > 0
    /\ \E p \in AssignedPlayers :
          /\ heap[p].service_start_time > heap[p].arrival_time
          /\ heap[p].service_time > 0
          /\ heap[p].cost > heap[p].service_time

(***************************************************************************)
(* C2: with no_of_servers = c >= 1, at every instant t at most c of the    *)
(* Players created so far have service_start_time <= t < service_end_time. *)
(***************************************************************************)
C2_AtMostCInService ==
    no_of_servers >= 1 =>
        \A t \in Instants :
            Cardinality({p \in AssignedPlayers : InService(p, t)}) <= no_of_servers

\* both of two servers are busy at one instant while a third Player waits
C2_Witness ==
    /\ no_of_servers = 2
    /\ \E t \in Instants :
          /\ Cardinality({p \in AssignedPlayers : InService(p, t)}) = 2
          /\ \E w \in AssignedPlayers :
                heap[w].arrival_time <= t /\ t < heap[w].service_start_time

(***************************************************************************)
(* C3: a call of enter_queue picks the server with the least value of      *)
(* next_available_times, the lowest index among equals; sets               *)
(* service_start_time to the maximum of arrival_time and that value;       *)
(* overwrites that server's slot, and no other, with service_end_time; and *)
(* appends the Player to the queue.                                        *)
(***************************************************************************)
C3_Assign ==
    [][EnterStep =>
        LET p == op'.arg
            e == heap'[p]
        IN  \E i \in DOMAIN next_available_times :
              /\ \A j \in DOMAIN next_available_times :
                    /\ next_available_times[i] <= next_available_times[j]
                    /\ j < i => next_available_times[i] < next_available_times[j]
              /\ e.service_start_time =
                    IF e.arrival_time >= next_available_times[i]
                    THEN e.arrival_time ELSE next_available_times[i]
              /\ DOMAIN next_available_times' = DOMAIN next_available_times
              /\ \A j \in DOMAIN next_available_times :
                    next_available_times'[j] =
                        IF j = i THEN e.service_end_time
                        ELSE next_available_times[j]
              /\ queue' = queue \o <<p>>
    ]_vars

\* a Player entered while both servers were equally free and got the first,
\* and a later Player got the second server, which was then the earlier one
C3_Witness ==
    /\ no_of_servers = 2
    /\ service_rate > 0
    /\ Len(heap) = 2
    /\ AssignedPlayers = {1, 2}
    /\ heap[1].service_time > 0
    /\ next_available_times = <<heap[1].service_end_time, heap[2].service_end_time>>
    /\ queue = <<1, 2>>

(***************************************************************************)
(* C4: main_simulation_loop(simulation_time) with simulation_time <= 0     *)
(* never executes the loop body: no Player is created, the Queue is as     *)
(* built, nothing is raised, and the two dicts it returns are empty.       *)
(***************************************************************************)
C4_NoIteration ==
    (pc # "idle" /\ simulation_time <= 0) =>
        /\ pc \in {"while", "returned"}
        /\ raised = ""
        /\ heap = << >>
        /\ no_of_players = 0
        /\ players = << >>
        /\ snapshots = << >>
        /\ queue = << >>
        /\ Len(next_available_times) = (IF no_of_servers > 0 THEN no_of_servers ELSE 0)
        /\ \A i \in DOMAIN next_available_times : next_available_times[i] = 0
        /\ pc = "returned" => result = <<[players |-> << >>, snapshots |-> << >>]>>

\* the loop returned for simulation_time = 0, snapshots enabled
C4_Witness ==
    /\ pc = "returned"
    /\ simulation_time = 0
    /\ snap_shot
    /\ no_of_servers >= 1
    /\ result = <<[players |-> << >>, snapshots |-> << >>]>>

(***************************************************************************)
(* C5: a model with no_of_servers < 1 is built without error; with         *)
(* simulation_time > 0 the first enter_queue raises the error of the empty *)
(* pool (ValueError of min()), which leaves main_simulation_loop: nothing  *)
(* is returned, no Player is served and no statement follows.              *)
(***************************************************************************)
C5_EmptyPoolAborts ==
    no_of_servers < 1 =>
        /\ next_available_times = << >>
        /\ pc = "idle" => raised = ""
        /\ (pc # "idle" /\ simulation_time > 0) =>
              /\ pc \in {"while", "enter_queue", "raised"}
              /\ result = << >>
              /\ queue = << >>
              /\ snapshots = << >>
              /\ AssignedPlayers = {}
              /\ pc = "while" => no_of_players = 0 /\ raised = ""
              /\ pc = "enter_queue" => no_of_players = 1 /\ raised = ""
              /\ pc = "raised" => /\ raised = "ValueError"
                                  /\ op.name = "enter_queue"
                                  /\ no_of_players = 1

\* the run of a model with a negative number of servers was aborted
C5_Witness ==
    /\ no_of_servers < 0
    /\ simulation_time > 0
    /\ pc = "raised"
    /\ raised = "ValueError"
    /\ result = << >>

(***************************************************************************)
(* C6: in every iteration of the loop the new Player enters the queue,     *)
(* then the queue is cleaned up at the Player's arrival time, then time    *)
(* advances by one inter-arrival sample, then (if snap_shot) a Snapshot is *)
(* stored under the advanced time: each statement is executed only         *)
(* directly after its predecessor, and none is skipped or repeated.        *)
(***************************************************************************)
C6_Order ==
    [][op' # op =>
        /\ op'.name = "enter_queue" => op.name = "Player"
        /\ op.name = "Player" => op'.name = "enter_queue" /\ op'.arg = new_player
        /\ op'.name = "clean_up_queue" =>
              /\ op.name = "enter_queue"
              /\ Assigned(new_player)
              /\ op'.arg = heap[new_player].arrival_time
        /\ op.name = "enter_queue" => op'.name = "clean_up_queue"
        /\ op'.name = "advance" => op.name = "clean_up_queue"
        /\ op.name = "clean_up_queue" =>
              /\ op'.name = "advance"
              /\ pc' # "raised" => time' = heap[new_player].arrival_time + op'.arg
        /\ op'.name = "snapshot" =>
              /\ op.name = "advance"
              /\ op'.arg = time
              /\ DOMAIN snapshots' =
                    IF snap_shot THEN DOMAIN snapshots \cup {time}
                    ELSE DOMAIN snapshots
        /\ op.name = "advance" => op'.name = "snapshot"
        /\ op.name = "snapshot" => op'.name \in {"Player", "return"}
        /\ op'.name = "Player" => op.name \in {"main_simulation_loop", "snapshot"}
    ]_vars

\* a second iteration has stored its Snapshot under the advanced time,
\* after the first Player was removed at the arrival of the second
C6_Witness ==
    /\ op.name = "snapshot"
    /\ snap_shot
    /\ no_of_players = 2
    /\ time > heap[new_player].arrival_time
    /\ time \in DOMAIN snapshots
    /\ queue = <<2>>

RECURSIVE TotalCost(_)
TotalCost(objs) ==
    IF objs = << >> THEN 0 ELSE Head(objs).cost + TotalCost(Tail(objs))

(***************************************************************************)
(* C7: the Snapshot just stored has average_cost equal to the mean of cost *)
(* over all Players created so far, those removed from the queue included, *)
(* and queue_length equal to the length of the queue at that moment.       *)
(***************************************************************************)
C7_SnapshotContents ==
    (op.name = "snapshot" /\ snap_shot) =>
        /\ time \in DOMAIN snapshots
        /\ snapshots[time].queue_length = Len(queue)
        /\ snapshots[time].average_cost[2] = Len(heap)
        /\ snapshots[time].average_cost[2] > 0
        /\ snapshots[time].average_cost[1] = TotalCost(heap)

\* a Snapshot stored when a Player with a positive cost had already been
\* removed from the queue and another was still in it
C7_Witness ==
    /\ op.name = "snapshot"
    /\ snap_shot
    /\ Len(queue) >= 1
    /\ \E p \in AssignedPlayers :
          /\ p \notin ActiveSet(queue)
          /\ heap[p].cost > 0
    /\ snapshots[time].average_cost[1] = TotalCost(heap)

KeysInOrder ==
    /\ no_of_players = Len(heap)
    /\ DOMAIN players = 1 .. no_of_players
    /\ \A k \in DOMAIN players : players[k] = k

ArrivalsNonDecreasing ==
    \A j, k \in DOMAIN players :
        j < k => heap[players[j]].arrival_time <= heap[players[k]].arrival_time

KeysKept ==
    \A k \in DOMAIN players : k \in DOMAIN players' /\ players'[k] = players[k]

(***************************************************************************)
(* C8: at every point of a run the players dict has exactly the keys 1..n  *)
(* for the n Players created so far, key k holds the k-th Player created,  *)
(* arrival times are non-decreasing in k, and no key is ever removed,      *)
(* reused or rebound, also when its Player is removed from the queue.      *)
(***************************************************************************)
C8_ResultsKeys ==
    /\ [](KeysInOrder /\ ArrivalsNonDecreasing)
    /\ [][KeysKept]_vars

\* what holds of C8 for every rate: the keys, their order and their binding
C8_KeysOnly ==
    /\ []KeysInOrder
    /\ [][KeysKept]_vars

\* what holds of C8 for a positive arrival rate
C8_ForPositiveRate ==
    /\ [](arrival_rate > 0 => KeysInOrder /\ ArrivalsNonDecreasing)
    /\ [][KeysKept]_vars

(***************************************************************************)
(* C9: clean_up_queue(time) removes from the queue exactly the Players     *)
(* with service_end_time <= time, one that ends exactly at time included,  *)
(* and keeps the Players with service_end_time > time in their order; the  *)
(* Player records themselves are untouched.                                *)
(***************************************************************************)
C9_CleanUp ==
    [][CleanStep =>
        LET t == op'.arg
        IN  /\ ActiveSet(queue') =
                  {p \in ActiveSet(queue) : heap[p].service_end_time > t}
            /\ \A p \in ActiveSet(queue) :
                  heap[p].service_end_time <= t => p \notin ActiveSet(queue')
            /\ Len(queue') = Cardinality(ActiveSet(queue'))
            /\ \A i, j \in DOMAIN queue' :
                  i < j => Position(queue, queue'[i]) < Position(queue, queue'[j])
            /\ heap' = heap
    ]_vars

\* the Player that entered last ended its service exactly at the time of
\* the clean-up that followed and is gone; two earlier ones are kept in order
C9_Witness ==
    /\ op.name = "clean_up_queue"
    /\ op.prev = << >>
    /\ service_rate > 0
    /\ Len(heap) = 3
    /\ AssignedPlayers = {1, 2, 3}
    /\ heap[3].service_end_time = op.arg
    /\ heap[1].service_end_time > op.arg
    /\ heap[2].service_end_time > op.arg
    /\ queue = <<1, 2>>

(***************************************************************************)
(* C10: a clean_up_queue(t2) directly after a clean_up_queue(t1) with      *)
(* t2 <= t1 removes nothing, and no clean_up_queue lengthens the queue.    *)
(***************************************************************************)
C10_Idempotent ==
    [][CleanStep =>
        /\ Len(queue') <= Len(queue)
        /\ (op'.prev # << >> /\ op'.arg <= op'.prev[1]) => queue' = queue
    ]_vars

\* a second clean-up, at a time not after the first one's, found a queue
\* from which a Player had been removed and in which another was left
C10_Witness ==
    /\ op.name = "clean_up_queue"
    /\ op.prev # << >>
    /\ op.arg <= op.prev[1]
    /\ \E p \in AssignedPlayers :
          p \notin ActiveSet(queue) /\ heap[p].service_end_time <= op.prev[1]
    /\ \E p \in ActiveSet(queue) : heap[p].service_end_time > op.prev[1]

PositiveSteps == (op.name = "advance" /\ pc # "raised") => op.arg > 0

Ended == pc \in {"returned", "raised"}

C12_Terminates ==
    /\ (no_of_servers >= 1 /\ []PositiveSteps) => <>Ended
    /\ [](no_of_servers >= 1 /\ pc = "raised" =>
             /\ raised = "ZeroDivisionError"
             /\ service_rate = 0 \/ arrival_rate = 0)
    /\ [](pc = "returned" =>
             /\ time >= simulation_time
             /\ \A ID \in DOMAIN players :
                   heap[players[ID]].arrival_time < simulation_time)
    /\ [][pc = "returned" => heap' = heap /\ players' = players]_vars

\* a run of MaxTime ticks returned after as many Players as ticks
C12_Witness ==
    /\ pc = "returned"
    /\ no_of_servers >= 1
    /\ simulation_time = MaxTime
    /\ no_of_players = MaxTime
    /\ time = simulation_time
    /\ \A ID \in DOMAIN players : heap[players[ID]].arrival_time = ID - 1

(***************************************************************************)
(* C13: sampling with a rate <= 0 fails and yields no sample, so that a    *)
(* run whose arrival_rate or service_rate is <= 0 is aborted by the error  *)
(* at its first sampling call: no Player is ever served at a service_rate  *)
(* <= 0, time never advances at an arrival_rate <= 0, and such a run does  *)
(* not return.                                                             *)
(***************************************************************************)
C13_NonPositiveRateFails ==
    /\ service_rate <= 0 => AssignedPlayers = {}
    /\ arrival_rate <= 0 => ~(op.name = "advance" /\ pc # "raised")
    /\ (arrival_rate <= 0 \/ service_rate <= 0) =>
          /\ tape = << >>
          /\ (simulation_time > 0 /\ no_of_servers >= 1) => pc # "returned"

\* what holds of C13: a rate of 0 raises ZeroDivisionError at the first
\* sampling call with that rate, and no sample is drawn from it
C13_ZeroRateFails ==
    /\ service_rate = 0 => AssignedPlayers = {}
    /\ arrival_rate = 0 => ~(op.name = "advance" /\ pc # "raised")
    /\ (arrival_rate = 0 \/ service_rate = 0) =>
          ((simulation_time > 0 /\ no_of_servers >= 1) => pc # "returned")

(***************************************************************************)
(* The stage of a Player: 0 unassigned, 1 assigned and in the queue        *)
(* (active), 2 assigned and no longer in the queue (purged).  The service  *)
(* fields are set and the Player appended within one enter_queue call.     *)
(***************************************************************************)
StageIn(objs, list, p) ==
    IF "cost" \notin DOMAIN objs[p] THEN 0
    ELSE IF p \in ActiveSet(list) THEN 1
    ELSE 2

Forwards ==
    \A p \in DOMAIN heap :
        /\ p \in DOMAIN heap'
        /\ StageIn(heap', queue', p) >= StageIn(heap, queue, p)
        /\ StageIn(heap', queue', p) <= StageIn(heap, queue, p) + 1
        /\ heap'[p].arrival_time = heap[p].arrival_time
        /\ Assigned(p) => heap'[p] = heap[p]

(***************************************************************************)
(* C14, as stated: every Player of a run goes unassigned -> assigned ->    *)
(* active -> purged, never backwards, each transition exactly once, so     *)
(* that when the run has returned every Player has been purged; and once   *)
(* assigned its fields never change.                                       *)
(***************************************************************************)
C14_EveryPlayerPurged ==
    /\ [][Forwards]_vars
    /\ [](pc = "returned" =>
             \A ID \in DOMAIN players : StageIn(heap, queue, players[ID]) = 2)

(***************************************************************************)
(* C14, amended: a Player moves only forwards through unassigned ->        *)
(* assigned and active -> purged, each transition at most once; it becomes *)
(* active only by its own enter_queue and purged only by a clean_up_queue  *)
(* at a time not before its service_end_time; once assigned its fields     *)
(* never change.  A Player still in the queue when the loop ends is never  *)
(* purged.                                                                 *)
(***************************************************************************)
C14_Lifecycle ==
    [][/\ Forwards
       /\ \A p \in DOMAIN heap :
             /\ (StageIn(heap, queue, p) = 0 /\ StageIn(heap', queue', p) = 1) =>
                   op'.name = "enter_queue" /\ op'.arg = p
             /\ (StageIn(heap, queue, p) = 1 /\ StageIn(heap', queue', p) = 2) =>
                   /\ op'.name = "clean_up_queue"
                   /\ heap[p].service_end_time <= op'.arg
       /\ \A p \in DOMAIN heap' \ DOMAIN heap : StageIn(heap', queue', p) = 0
    ]_vars

\* the run returned with one Player purged and another still in the queue
C14_Witness ==
    /\ pc = "returned"
    /\ \E ID \in DOMAIN players : StageIn(heap, queue, players[ID]) = 2
    /\ \E ID \in DOMAIN players : StageIn(heap, queue, players[ID]) = 1

(***************************************************************************)
(* The frame of the two pool operations on next_available_times.           *)
(***************************************************************************)
ChangedSlots ==
    {i \in DOMAIN next_available_times :
        next_available_times'[i] # next_available_times[i]}

PoolFrame ==
    /\ DOMAIN next_available_times' = DOMAIN next_available_times
    /\ EnterStep =>
          /\ Cardinality(ChangedSlots) <= 1
          /\ \E i \in DOMAIN next_available_times :
                /\ ChangedSlots \subseteq {i}
                /\ next_available_times[i] = min(next_available_times)
                /\ next_available_times'[i] = heap'[op'.arg].service_end_time
    /\ CleanStep => next_available_times' = next_available_times

(***************************************************************************)
(* C15, as stated: len(next_available_times) equals no_of_servers after    *)
(* construction and after every operation; enter_queue overwrites exactly  *)
(* the chosen server's slot and leaves every other slot as it is;          *)
(* clean_up_queue leaves next_available_times as it is.                    *)
(***************************************************************************)
C15_LengthIsServers ==
    /\ [](Len(next_available_times) = no_of_servers)
    /\ [][PoolFrame]_vars

(***************************************************************************)
(* C15, amended: len(next_available_times) equals no_of_servers when that  *)
(* is >= 0 and is 0 when it is negative, after construction and after      *)
(* every operation; the frame of enter_queue and clean_up_queue as stated. *)
(***************************************************************************)
C15_Frame ==
    /\ [](Len(next_available_times) = (IF no_of_servers > 0 THEN no_of_servers ELSE 0))
    /\ [][PoolFrame]_vars

\* after an enter_queue and a clean_up_queue on a pool of several servers
\* one slot holds the end of the Player's service, the others are untouched
C15_Witness ==
    /\ no_of_servers >= 2
    /\ Len(next_available_times) = no_of_servers
    /\ op.name = "clean_up_queue"
    /\ Len(heap) = 1
    /\ Assigned(1)
    /\ heap[1].service_end_time > 0
    /\ next_available_times[1] = heap[1].service_end_time
    /\ \A i \in DOMAIN next_available_times : i > 1 => next_available_times[i] = 0

(***************************************************************************)
(* C16, as stated: after each clean-up of the loop at time t the queue     *)
(* holds only Players occupying a server, service_start_time <= t <        *)
(* service_end_time; a Player still waiting for a server is not in it.     *)
(* Stated for positive rates, where every sample is non-negative.          *)
(***************************************************************************)
C16_OnlyInService ==
    (op.name = "clean_up_queue" /\ arrival_rate > 0 /\ service_rate > 0) =>
        \A p \in ActiveSet(queue) : InService(p, time)

(***************************************************************************)
(* C16, amended: after each clean-up of the loop at time t the queue holds *)
(* only Players that have not finished, t < service_end_time, whether they *)
(* occupy a server or still wait for one: the Player that has just entered *)
(* is in it whenever its service ends after t.                             *)
(***************************************************************************)
C16_NotFinished ==
    op.name = "clean_up_queue" =>
        /\ \A p \in ActiveSet(queue) :
              Assigned(p) /\ time < heap[p].service_end_time
        /\ heap[new_player].service_end_time > time => new_player \in ActiveSet(queue)

\* after the clean-up the queue holds a Player in service and one waiting
C16_Witness ==
    /\ op.name = "clean_up_queue"
    /\ arrival_rate > 0
    /\ service_rate > 0
    /\ \E p \in ActiveSet(queue) : InService(p, time)
    /\ \E p \in ActiveSet(queue) : heap[p].service_start_time > time

\* the Players were assigned in non-decreasing order of arrival, each with
\* a non-negative service time
OrderlyAssigned(objs) ==
    /\ \A p \in DOMAIN objs : "cost" \in DOMAIN objs[p] /\ objs[p].service_time >= 0
    /\ \A p, q \in DOMAIN objs :
          p < q => objs[p].arrival_time <= objs[q].arrival_time

StartsInOrder ==
    OrderlyAssigned(heap) =>
        \A p, q \in DOMAIN heap :
            p < q => heap[p].service_start_time <= heap[q].service_start_time

EarliestSlotNeverDecreases ==
    (EnterStep /\ OrderlyAssigned(heap')) =>
        min(next_available_times') >= min(next_available_times)

(***************************************************************************)
(* C17: service is first come, first served across the pool: when Players  *)
(* enter the queue in non-decreasing order of arrival_time with            *)
(* non-negative service times, service_start_time is non-decreasing in the *)
(* order of the calls of enter_queue, and min(next_available_times) never  *)
(* decreases from one call of enter_queue to the next.                     *)
(***************************************************************************)
C17_FirstComeFirstServed ==
    /\ []StartsInOrder
    /\ [][EarliestSlotNeverDecreases]_vars

\* three Players entered in order of arrival; the last one has to wait, and
\* the earliest slot has moved
C17_Witness ==
    /\ Len(heap) = 3
    /\ OrderlyAssigned(heap)
    /\ heap[2].arrival_time > heap[1].arrival_time
    /\ heap[3].service_start_time > heap[3].arrival_time
    /\ heap[3].service_start_time > heap[2].service_start_time
    /\ min(next_available_times) > 0

\* every inter-arrival sample of the run so far was strictly positive
GapsPositive ==
    /\ \A j, k \in DOMAIN players :
          j < k => heap[players[j]].arrival_time < heap[players[k]].arrival_time
    /\ (pc \in {"snapshot", "while", "returned"} /\ no_of_players >= 1) =>
          time > heap[new_player].arrival_time

\* the times reached by line 271 in the iterations completed so far
AdvancedTimes ==
    {heap[players[k]].arrival_time : k \in DOMAIN players \ {1}}
        \cup (IF no_of_players >= 1 THEN {time} ELSE {})

(***************************************************************************)
(* C18: in a run with simulation_time > 0 the first Player has             *)
(* arrival_time 0 and every Player of the players dict has arrival_time    *)
(* strictly below simulation_time; the keys of snapshots are the advanced  *)
(* times: with snap_shot and strictly positive inter-arrival samples there *)
(* is exactly one snapshot per Player and the key of the last snapshot is  *)
(* >= simulation_time; without snap_shot snapshots stays empty.            *)
(***************************************************************************)
C18_ArrivalsAndKeys ==
    (pc # "idle" /\ simulation_time > 0) =>
        /\ 1 \in DOMAIN players => heap[players[1]].arrival_time = 0
        /\ \A k \in DOMAIN players :
              heap[players[k]].arrival_time < simulation_time
        /\ ~snap_shot => snapshots = << >>
        /\ (snap_shot /\ pc \in {"while", "returned"}) =>
              /\ DOMAIN snapshots = AdvancedTimes
              /\ GapsPositive =>
                    Cardinality(DOMAIN snapshots) = no_of_players
        /\ (snap_shot /\ pc = "returned") =>
              /\ time \in DOMAIN snapshots
              /\ time >= simulation_time
              /\ GapsPositive => \A key \in DOMAIN snapshots : key <= time

\* a run with snapshots returned after two Players with positive gaps
C18_Witness ==
    /\ pc = "returned"
    /\ snap_shot
    /\ simulation_time > 0
    /\ no_of_players = 2
    /\ GapsPositive
    /\ Cardinality(DOMAIN snapshots) = 2
    /\ time > simulation_time

\* the Players created so far whose service ends after the arrival of the
\* most recently created one, which is the time of the last clean-up
UnfinishedAtLastArrival ==
    {p \in AssignedPlayers :
        heap[p].service_end_time > heap[new_player].arrival_time}

(***************************************************************************)
(* C19: the queue_length of the snapshot stored under the advanced time    *)
(* is the number of Players created so far whose service_end_time is       *)
(* strictly greater than the arrival_time of the most recently created     *)
(* Player, the time of the last clean-up, and not the number of those      *)
(* whose service ends after the advanced time.                             *)
(***************************************************************************)
C19_QueueLengthAtLastArrival ==
    (op.name = "snapshot" /\ snap_shot) =>
        snapshots[time].queue_length = Cardinality(UnfinishedAtLastArrival)

\* the same for the runs in which time cannot go backwards
C19_ForPositiveRate ==
    arrival_rate > 0 => C19_QueueLengthAtLastArrival

\* a snapshot counts a Player that has finished before the advanced time
C19_CountsFinished ==
    /\ op.name = "snapshot"
    /\ snap_shot
    /\ arrival_rate > 0
    /\ service_rate > 0
    /\ snapshots[time].queue_length >
          Cardinality({p \in AssignedPlayers : heap[p].service_end_time > time})

\* a second call of main_simulation_loop on the same model is under way
Again == first # << >> /\ first[1].mode = "again"

(***************************************************************************)
(* C20: main_simulation_loop resets time, the players dict, snapshots and  *)
(* the count of Players, but not the pool of servers: when it is called a  *)
(* second time on the same SimulationModel, next_available_times and the   *)
(* queue's list at the start of the second run are what they were at the   *)
(* end of the first.                                                       *)
(***************************************************************************)
C20_PoolKeptAcrossRuns ==
    (Again /\ op.name = "main_simulation_loop") =>
        /\ time = 0
        /\ players = << >>
        /\ snapshots = << >>
        /\ no_of_players = 0
        /\ next_available_times = first[1].next_available_times
        /\ queue = first[1].queue

\* the second run starts on a pool whose servers are busy beyond time 0 and
\* whose list still holds a Player of the first run
C20_Witness ==
    /\ Again
    /\ op.name = "main_simulation_loop"
    /\ first[1].results # << >>
    /\ queue # << >>
    /\ \A i \in DOMAIN next_available_times : next_available_times[i] > 0
    /\ next_available_times # Queue(no_of_servers)

====
